---- MODULE Spec2Model ----
(***************************************************************************)
(* Model of the feedback service of app.py: the Feedback and Store tables, *)
(* the two mutating feedback endpoints (POST /v1/feedback and              *)
(* POST /v1/feedback/<id>/resolve), store registration, and the three read *)
(* endpoints built on build_filtered_query (listing, metrics, trend).      *)
(*                                                                         *)
(* Conventions.                                                            *)
(*  - A Python or SQL value that may be None/NULL is a tuple of length at   *)
(*    most one: <<>> is None/NULL, <<v>> is the value v.                   *)
(*  - A key of the JSON payload that is not present is KeyAbsent.          *)
(*  - Polarity is counted in thousandths: 0.2 is 200, -0.1 is -100.        *)
(*  - Time is counted in ticks since 2024-01-01T00:00, TicksPerDay ticks   *)
(*    to the day; a date is a number of days since 2024-01-01.             *)
(*  - Every handler runs as one step on an idle server and leaves its      *)
(*    request in req and its response in resp; Return hands the response   *)
(*    back and makes the server idle again.                                *)
(***************************************************************************)
EXTENDS Integers, Sequences, FiniteSets, TLC

VARIABLES feedback, stores, now, req, resp

vars == <<feedback, stores, now, req, resp>>

\* ---------------------------------------------------------------- bounds

\* Rows the Feedback table may hold.
MaxFeedback == 2
\* Rows the Store table may hold.
MaxStores == 1
\* Last tick of the clock.
MaxTime == 2
\* Resolution of the clock.
TicksPerDay == 2

\* ---------------------------------------------------------------- values

None == <<>>

Some(v) == <<v>>

KeyAbsent == <<"key", "absent">>

\* The texts submitted, with what TextBlob and the classifier make of each.
Texts == {"Service was slightly slow", "Service was a bit slow",
          "Food was fairly nice", "Food was nice"}

Platforms == {"web"}

Areas == {"Downtown", "Uptown"}

\* blob.sentiment.polarity, a pure function of the text.
Polarity(text) ==
    CASE text = "Service was slightly slow" -> -101
      [] text = "Service was a bit slow" -> -100
      [] text = "Food was fairly nice" -> 200
      [] text = "Food was nice" -> 201

PosThreshold == 200

NegThreshold == -100

\* The thresholds taken as inclusive.
SentimentOfGE(polarity) ==
    IF polarity >= PosThreshold THEN "Positive"
    ELSE IF polarity <= NegThreshold THEN "Negative"
    ELSE "Neutral"

\* sentiment = "Neutral"; if polarity > 0.2: "Positive"; elif polarity < -0.1: "Negative"
SentimentOf(polarity) ==
    IF polarity > PosThreshold THEN "Positive"
    ELSE IF polarity < NegThreshold THEN "Negative"
    ELSE "Neutral"

candidate_labels == <<"Quality of food", "Customer service", "Speed", "Ambience">>

\* The zero-shot classifier's answer: the candidate labels ranked, with scores.
Classifier(text, labels) ==
    CASE text = "Service was slightly slow" ->
             [labels |-> <<labels[3], labels[2], labels[1], labels[4]>>,
              scores |-> <<70, 20, 6, 4>>]
      [] text = "Service was a bit slow" ->
             [labels |-> <<labels[2], labels[3], labels[1], labels[4]>>,
              scores |-> <<55, 35, 6, 4>>]
      [] text = "Food was fairly nice" ->
             [labels |-> <<labels[1], labels[4], labels[2], labels[3]>>,
              scores |-> <<80, 10, 6, 4>>]
      [] text = "Food was nice" ->
             [labels |-> <<labels[1], labels[4], labels[2], labels[3]>>,
              scores |-> <<85, 8, 4, 3>>]

\* ----------------------------------------------------------------- state

NoRequest == [op |-> "none"]

NoResponse == [code |-> 0]

Idle == req = NoRequest

Init ==
    /\ feedback = <<>>
    /\ stores = <<>>
    /\ now = 0
    /\ req = NoRequest
    /\ resp = NoResponse

\* datetime.utcnow moves on between requests.
Tick ==
    /\ Idle
    /\ now < MaxTime
    /\ now' = now + 1
    /\ UNCHANGED <<feedback, stores, req, resp>>

\* The response goes back to the caller.
Return ==
    /\ ~Idle
    /\ req' = NoRequest
    /\ resp' = NoResponse
    /\ UNCHANGED <<feedback, stores, now>>

\* The status of a request the handler rejects: (..., 400).
BadRequestCode == 400

\* ------------------------------------------------------------ the tables

\* A commit that checks no NOT NULL column of Feedback.
FeedbackCommitOkUnchecked(row) == TRUE

\* db.session.commit() of a new Feedback row: platform, text and status are
\* nullable=False, the other columns are nullable.
FeedbackCommitOk(row) ==
    /\ row.platform # None
    /\ row.text # None
    /\ row.status # None

\* Feedback(platform=..., text=..., category=..., sentiment=...,
\*          sentiment_score=..., store_id=..., status='New') as the row the
\* table holds, with id the primary key and timestamp the column default.
FeedbackRow(id, timestamp, data, category, sentiment, polarity) ==
    [id |-> id,
     platform |-> data.platform,
     text |-> data.text,
     timestamp |-> timestamp,
     category |-> Some(category),
     sentiment |-> Some(sentiment),
     sentiment_score |-> Some(polarity),
     store_id |-> IF data.store_id = KeyAbsent THEN None ELSE data.store_id,
     status |-> Some("New")]

\* The row add_feedback inserts now.
NewFeedback(data, category, sentiment, polarity) ==
    FeedbackRow(Len(feedback) + 1, now, data, category, sentiment, polarity)

\* Store(name=..., area=data.get('area'))
StoreRow(id, data) ==
    [id |-> id,
     name |-> data.name,
     area |-> IF data.area = KeyAbsent THEN None ELSE data.area]

\* db.session.commit() of a new Store row: name is nullable=False.
StoreCommitOk(row) == row.name # None

Range(seq) == {seq[i] : i \in DOMAIN seq}

\* ---------------------------------------------------------- POST feedback

Payloads ==
    [platform : {KeyAbsent, None} \cup {Some(p) : p \in Platforms},
     text : {KeyAbsent, None} \cup {Some(t) : t \in Texts},
     store_id : {KeyAbsent, Some(1)}]

\* The handler's result for the payload data: the response, and the table as
\* it is left. classifierUp: the classifier call returns; publishUp:
\* socketio.emit returns.
add_feedback(data, classifierUp, publishUp) ==
    IF data.text = KeyAbsent \/ data.platform = KeyAbsent
    THEN [table |-> feedback,
          resp |-> [code |-> BadRequestCode,
                    error |-> "Missing required data: platform and text",
                    emitted |-> <<>>]]
    ELSE IF data.text = None
    THEN \* TextBlob(None) raises TypeError
         [table |-> feedback,
          resp |-> [code |-> 500, error |-> "TypeError", emitted |-> <<>>]]
    ELSE IF ~classifierUp
    THEN [table |-> feedback,
          resp |-> [code |-> 500, error |-> "classifier", emitted |-> <<>>]]
    ELSE
      LET feedback_text == data.text[1]
          polarity == Polarity(feedback_text)
          sentiment == SentimentOf(polarity)
          result == Classifier(feedback_text, candidate_labels)
          category == result.labels[1]
          category_confidence == result.scores[1]
          new_feedback == NewFeedback(data, category, sentiment, polarity)
      IN IF ~FeedbackCommitOk(new_feedback)
         THEN \* IntegrityError: NOT NULL constraint failed
              [table |-> feedback,
               resp |-> [code |-> 500, error |-> "IntegrityError", emitted |-> <<>>]]
         ELSE IF ~publishUp
         THEN \* socketio.emit raises after the commit
              [table |-> Append(feedback, new_feedback),
               resp |-> [code |-> 500, error |-> "emit", emitted |-> <<>>]]
         ELSE [table |-> Append(feedback, new_feedback),
               resp |-> [code |-> 201, id |-> new_feedback.id,
                         analysis |-> [category |-> category,
                                       category_confidence |-> category_confidence,
                                       sentiment |-> sentiment,
                                       polarity_score |-> polarity],
                         emitted |-> << [event |-> "new_feedback",
                                         id |-> new_feedback.id] >>]]

AddFeedback ==
    /\ Idle
    /\ \E data \in Payloads, classifierUp \in BOOLEAN, publishUp \in BOOLEAN :
         LET out == add_feedback(data, classifierUp, publishUp)
         IN /\ Len(out.table) <= MaxFeedback
            /\ feedback' = out.table
            /\ req' = [op |-> "add_feedback", data |-> data,
                       classifierUp |-> classifierUp, publishUp |-> publishUp]
            /\ resp' = out.resp
    /\ UNCHANGED <<stores, now>>

\* ------------------------------------------------------- POST resolve

\* The status assigned by a resolve that undoes the resolution.
ResolvedStatusToggle(row) == IF row.status = Some("Resolved") THEN "New" ELSE "Resolved"

\* feedback_item.status = 'Resolved'
ResolvedStatus(row) == "Resolved"

\* A resolve that answers not-found with the validation error's code.
NotFoundCodeAsValidation == BadRequestCode

NotFoundCode == 404

\* A not-found answer given after the event has gone out.
NotFoundResponseAfterEmit(feedback_id) ==
    [code |-> NotFoundCode, error |-> "Feedback item not found",
     emitted |-> << [event |-> "feedback_resolved", id |-> feedback_id] >>]

\* return jsonify({"error": "Feedback item not found"}), 404
NotFoundResponse(feedback_id) ==
    [code |-> NotFoundCode, error |-> "Feedback item not found", emitted |-> <<>>]

resolve_feedback(feedback_id, publishUp) ==
    IF feedback_id \notin DOMAIN feedback
    THEN [table |-> feedback, resp |-> NotFoundResponse(feedback_id)]
    ELSE
      LET feedback_item == feedback[feedback_id]
          table == [feedback EXCEPT ![feedback_id].status =
                                        Some(ResolvedStatus(feedback_item))]
      IN IF ~publishUp
         THEN [table |-> table,
               resp |-> [code |-> 500, error |-> "emit", emitted |-> <<>>]]
         ELSE [table |-> table,
               resp |-> [code |-> 200, id |-> feedback_id,
                         emitted |-> << [event |-> "feedback_resolved",
                                         id |-> feedback_id] >>]]

ResolveFeedback ==
    /\ Idle
    /\ \E feedback_id \in 0..(MaxFeedback + 1), publishUp \in BOOLEAN :
         LET out == resolve_feedback(feedback_id, publishUp)
         IN /\ feedback' = out.table
            /\ req' = [op |-> "resolve_feedback", id |-> feedback_id,
                       publishUp |-> publishUp]
            /\ resp' = out.resp
    /\ UNCHANGED <<stores, now>>

\* -------------------------------------------------------- POST stores

StorePayloads ==
    [name : {KeyAbsent, None, Some("Main St")},
     area : {KeyAbsent, None} \cup {Some(a) : a \in Areas}]

add_store(data) ==
    IF data.name = KeyAbsent
    THEN [table |-> stores,
          resp |-> [code |-> BadRequestCode, error |-> "Missing required data: name"]]
    ELSE
      LET new_store == StoreRow(Len(stores) + 1, data)
      IN IF ~StoreCommitOk(new_store)
         THEN [table |-> stores, resp |-> [code |-> 500, error |-> "IntegrityError"]]
         ELSE [table |-> Append(stores, new_store),
               resp |-> [code |-> 201, id |-> new_store.id]]

AddStore ==
    /\ Idle
    /\ \E data \in StorePayloads :
         LET out == add_store(data)
         IN /\ Len(out.table) <= MaxStores
            /\ stores' = out.table
            /\ req' = [op |-> "add_store", data |-> data]
            /\ resp' = out.resp
    /\ UNCHANGED <<feedback, now>>

\* ------------------------------------------------ build_filtered_query

\* Python's date.max (9999-12-31), in days since 2024-01-01.
DateMax == 2913173

\* `if s:` on request.args.get(...): the parameter is given and not empty.
Truthy(param) == param # None /\ param[1] # ""

\* datetime.strptime(s, '%Y-%m-%d').date(): the date, or ValueError.
strptime(s) ==
    CASE s = "2024-01-01" -> [ok |-> TRUE, date |-> 0]
      [] s = "2024-01-02" -> [ok |-> TRUE, date |-> 1]
      [] s = "9999-12-31" -> [ok |-> TRUE, date |-> DateMax]
      [] OTHER -> [ok |-> FALSE]

\* int(s): the integer, or ValueError.
int(s) ==
    CASE s = "1" -> [ok |-> TRUE, value |-> 1]
      [] s = "2" -> [ok |-> TRUE, value |-> 2]
      [] OTHER -> [ok |-> FALSE]

\* A date bound as a DateTime parameter is that date at 00:00.
Midnight(date) == date * TicksPerDay

\* Feedback.timestamp < (end_date + timedelta(days=1))
EndBound(end_date) == Midnight(end_date + 1)

\* The query: Feedback.query with the join and the filters put on it, not run.
\* Each field is None when the query has no such criterion.
EmptyQuery ==
    [area |-> None, ts_ge |-> None, ts_lt |-> None, store_id |-> None, status |-> None]

\* The handler's query for the request's parameters: [kind |-> "query"], or
\* [kind |-> "None"] after a ValueError, or [kind |-> "OverflowError"] when
\* end_date + timedelta(days=1) is past date.max, which nothing catches.
build_filtered_query(args) ==
    LET q1 == IF Truthy(args.area)
              THEN [EmptyQuery EXCEPT !.area = args.area]
              ELSE EmptyQuery
        start == IF Truthy(args.start) THEN strptime(args.start[1]) ELSE [ok |-> TRUE]
        q2 == IF Truthy(args.start) /\ start.ok
              THEN [q1 EXCEPT !.ts_ge = Some(Midnight(start.date))]
              ELSE q1
        end == IF Truthy(args.end) THEN strptime(args.end[1]) ELSE [ok |-> TRUE]
        overflow == Truthy(args.end) /\ end.ok /\ end.date + 1 > DateMax
        q3 == IF Truthy(args.end) /\ end.ok /\ ~overflow
              THEN [q2 EXCEPT !.ts_lt = Some(EndBound(end.date))]
              ELSE q2
        store == IF Truthy(args.store_id) THEN int(args.store_id[1]) ELSE [ok |-> TRUE]
        q4 == IF Truthy(args.store_id) /\ store.ok
              THEN [q3 EXCEPT !.store_id = Some(store.value)]
              ELSE q3
        q5 == IF Truthy(args.status)
              THEN [q4 EXCEPT !.status = args.status]
              ELSE q4
    IN IF ~start.ok THEN [kind |-> "None"]
       ELSE IF ~end.ok THEN [kind |-> "None"]
       ELSE IF overflow THEN [kind |-> "OverflowError"]
       ELSE IF ~store.ok THEN [kind |-> "None"]
       ELSE [kind |-> "query", query |-> q5]

\* The rows the query selects when the store runs it.
Rows(query) ==
    {f \in Range(feedback) :
        /\ query.area # None =>
             \E s \in Range(stores) : f.store_id = Some(s.id) /\ s.area = query.area
        /\ query.ts_ge # None => f.timestamp >= query.ts_ge[1]
        /\ query.ts_lt # None => f.timestamp < query.ts_lt[1]
        /\ query.store_id # None => f.store_id = query.store_id
        /\ query.status # None => f.status = query.status}

RECURSIVE SumScores(_)
SumScores(rows) ==
    IF rows = {} THEN 0
    ELSE LET f == CHOOSE f \in rows : TRUE
         IN f.sentiment_score[1] + SumScores(rows \ {f})

\* func.avg(Feedback.sentiment_score) over a group: the exact quotient sum / n.
Avg(rows) == [sum |-> SumScores(rows), n |-> Cardinality(rows)]

\* The parameters a read request is sent with.
QueryArgs ==
    [start : {None, Some(""), Some("not-a-date"), Some("2024-01-02")},
     end : {None, Some("not-a-date"), Some("2024-01-01"), Some("9999-12-31")},
     store_id : {None, Some(""), Some("abc"), Some("1")},
     area : {None, Some("Downtown"), Some("Uptown")},
     status : {None, Some("Resolved")}]

InvalidDateResponse == [code |-> BadRequestCode, error |-> "Invalid date format"]

InternalErrorResponse == [code |-> 500, error |-> "OverflowError"]

\* ------------------------------------------------------- GET feedback

\* rows ordered by timestamp descending; rank orders the rows of one
\* timestamp, which the ORDER BY leaves to the store.
RECURSIVE OrderByTimestampDesc(_, _)
OrderByTimestampDesc(rows, rank) ==
    IF rows = {} THEN <<>>
    ELSE LET first == CHOOSE f \in rows : \A g \in rows :
                          \/ f.timestamp > g.timestamp
                          \/ f.timestamp = g.timestamp /\ rank[f.id] <= rank[g.id]
         IN <<first>> \o OrderByTimestampDesc(rows \ {first}, rank)

get_feedback(args, rank) ==
    LET built == build_filtered_query(args)
    IN IF built.kind = "None" THEN InvalidDateResponse
       ELSE IF built.kind = "OverflowError" THEN InternalErrorResponse
       ELSE [code |-> 200, results |-> OrderByTimestampDesc(Rows(built.query), rank)]

GetFeedback ==
    /\ Idle
    /\ \E args \in QueryArgs, rank \in Permutations(DOMAIN feedback) :
         /\ req' = [op |-> "get_feedback", args |-> args]
         /\ resp' = get_feedback(args, rank)
    /\ UNCHANGED <<feedback, stores, now>>

\* -------------------------------------------------------- GET metrics

SentimentLabels == {"Positive", "Negative", "Neutral"}

\* The by-sentiment map without its zero entries.
SentimentCountsSparse(rows) ==
    [s \in {f.sentiment[1] : f \in rows} |->
        Cardinality({f \in rows : f.sentiment = Some(s)})]

\* sentiments = {"Positive": 0, "Negative": 0, "Neutral": 0}, then the count of
\* each group of the GROUP BY sentiment whose label is one of the three.
SentimentCounts(rows) ==
    [s \in SentimentLabels |-> Cardinality({f \in rows : f.sentiment = Some(s)})]

\* One entry for each group of the GROUP BY category.
CategoryMetrics(rows) ==
    [c \in {f.category[1] : f \in rows} |->
        LET group == {f \in rows : f.category = Some(c)}
        IN [count |-> Cardinality(group), average_sentiment_score |-> Avg(group)]]

get_metrics(args) ==
    LET built == build_filtered_query(args)
    IN IF built.kind = "None" THEN InvalidDateResponse
       ELSE IF built.kind = "OverflowError" THEN InternalErrorResponse
       ELSE LET rows == Rows(built.query)
            IN [code |-> 200,
                total_feedback |-> Cardinality(rows),
                feedback_by_sentiment |-> SentimentCounts(rows),
                feedback_by_category |-> CategoryMetrics(rows)]

GetMetrics ==
    /\ Idle
    /\ \E args \in QueryArgs :
         /\ req' = [op |-> "get_metrics", args |-> args]
         /\ resp' = get_metrics(args)
    /\ UNCHANGED <<feedback, stores, now>>

\* --------------------------------------------------- GET metrics/trend

\* func.strftime('%Y-%m-%d', Feedback.timestamp): the day of the timestamp.
DateOf(timestamp) == timestamp \div TicksPerDay

RECURSIVE DailyTrend(_, _)
DailyTrend(rows, dates) ==
    IF dates = {} THEN <<>>
    ELSE LET d == CHOOSE d \in dates : \A e \in dates : d <= e
         IN << [date |-> d,
                average_sentiment |-> Avg({f \in rows : DateOf(f.timestamp) = d})] >>
            \o DailyTrend(rows, dates \ {d})

get_metrics_trend(args) ==
    LET built == build_filtered_query(args)
    IN IF built.kind = "None" THEN InvalidDateResponse
       ELSE IF built.kind = "OverflowError" THEN InternalErrorResponse
       ELSE LET rows == Rows(built.query)
            IN [code |-> 200,
                results |-> DailyTrend(rows, {DateOf(f.timestamp) : f \in rows})]

GetMetricsTrend ==
    /\ Idle
    /\ \E args \in QueryArgs :
         /\ req' = [op |-> "get_metrics_trend", args |-> args]
         /\ resp' = get_metrics_trend(args)
    /\ UNCHANGED <<feedback, stores, now>>

\* ------------------------------------------------- the stores read from

\* The Store tables add_store leaves.
StoreTables ==
    UNION {{t \in [1..n -> {StoreRow(i, d) : i \in 1..n,
                              d \in {p \in StorePayloads : p.name # KeyAbsent}}] :
               \A i \in 1..n : t[i].id = i /\ StoreCommitOk(t[i])}
           : n \in 0..MaxStores}

\* The texts of the rows that are read.
ReadTexts == Texts \ {"Service was a bit slow"}

\* The rows add_feedback inserts, and resolve_feedback may have resolved.
StoredRows(n) ==
    {[FeedbackRow(i, ts, d, Classifier(d.text[1], candidate_labels).labels[1],
                  SentimentOf(Polarity(d.text[1])), Polarity(d.text[1]))
        EXCEPT !.status = Some(st)] :
       i \in 1..n, ts \in 0..MaxTime, st \in {"New", "Resolved"},
       d \in {p \in Payloads : /\ p.platform \notin {KeyAbsent, None}
                                /\ p.text \in {Some(t) : t \in ReadTexts}}}

\* The Feedback tables a run of add_feedback and resolve_feedback leaves.
FeedbackTables ==
    UNION {{t \in [1..n -> StoredRows(n)] :
               \A i \in 1..n : /\ t[i].id = i
                               /\ i > 1 => t[i - 1].timestamp <= t[i].timestamp}
           : n \in 0..MaxFeedback}

InitRead ==
    /\ feedback \in FeedbackTables
    /\ stores \in StoreTables
    /\ now = MaxTime
    /\ req = NoRequest
    /\ resp = NoResponse

NextRead ==
    \/ GetFeedback
    \/ GetMetrics
    \/ GetMetricsTrend
    \/ Return

ReadSpec == InitRead /\ [][NextRead]_vars

\* --------------------------------------------------------- specification

Next ==
    \/ AddFeedback
    \/ ResolveFeedback
    \/ AddStore
    \/ Tick
    \/ Return

Spec == Init /\ [][Next]_vars

\* ================================================================ claims

WriteOps == {"add_feedback", "resolve_feedback"}

ReadOps == {"get_feedback", "get_metrics", "get_metrics_trend"}

New == Some("New")

Resolved == Some("Resolved")

\* C1: every Feedback row's status is New or Resolved; a row is New when it is
\* created; and a row that is Resolved is still Resolved after any step.
C1_StatusMonotonic ==
    [][/\ \A i \in DOMAIN feedback' : feedback'[i].status \in {New, Resolved}
       /\ \A i \in DOMAIN feedback' \ DOMAIN feedback : feedback'[i].status = New
       /\ \A i \in DOMAIN feedback :
            feedback[i].status = Resolved =>
                i \in DOMAIN feedback' /\ feedback'[i].status = Resolved]_vars

\* A Resolved row has been resolved once more, beside a row that is still New.
C1_Witness ==
    /\ req.op = "resolve_feedback"
    /\ resp.code = 200
    /\ Len(feedback) = 2
    /\ feedback[1].status = Resolved
    /\ feedback[2].status = New
    /\ req.id = 1

\* C2 as stated: resolving a row that is already Resolved answers 200, leaves
\* both tables as they were, and publishes feedback_resolved with that id.
C2_ResolveIdempotent ==
    [][(/\ req'.op = "resolve_feedback"
        /\ req'.id \in DOMAIN feedback
        /\ feedback[req'.id].status = Resolved)
       => /\ resp'.code = 200
          /\ feedback' = feedback
          /\ stores' = stores
          /\ resp'.emitted = << [event |-> "feedback_resolved", id |-> req'.id] >>]_vars

\* C3: every stored row's sentiment follows from its stored score: above 0.2
\* Positive, below -0.1 Negative, anything else (0.2 and -0.1 too) Neutral.
C3_ThresholdRule ==
    \A i \in DOMAIN feedback :
        LET score == feedback[i].sentiment_score[1]
            label == feedback[i].sentiment[1]
        IN /\ score > 200 => label = "Positive"
           /\ score < -100 => label = "Negative"
           /\ (score >= -100 /\ score <= 200) => label = "Neutral"

\* A row scored exactly 0.2 is stored Neutral and has been resolved, beside a
\* row scored just below -0.1.
C3_Witness ==
    /\ Len(feedback) = 2
    /\ feedback[1].sentiment_score = Some(200)
    /\ feedback[1].sentiment = Some("Neutral")
    /\ feedback[1].status = Resolved
    /\ feedback[2].sentiment_score = Some(-101)
    /\ feedback[2].sentiment = Some("Negative")

C4_Required == {"platform", "text", "category", "sentiment", "sentiment_score", "status"}

\* C4: after every step, every stored row has platform, text, category,
\* sentiment, sentiment_score and status non-null; and an ingestion whose
\* payload has platform or text absent or null, or whose text cannot be scored,
\* or whose classification fails, leaves the table as it was.
C4_NoPartialRow ==
    [][/\ \A i \in DOMAIN feedback' : \A col \in C4_Required :
            feedback'[i][col] # None /\ feedback'[i][col] # KeyAbsent
       /\ (/\ req'.op = "add_feedback"
           /\ \/ req'.data.platform \in {KeyAbsent, None}
              \/ req'.data.text \in {KeyAbsent, None}
              \/ ~req'.classifierUp)
          => feedback' = feedback]_vars

\* An ingestion with platform null and a good text has failed, with a row
\* already stored.
C4_Witness ==
    /\ req.op = "add_feedback"
    /\ req.data.platform = None
    /\ req.data.text \notin {KeyAbsent, None}
    /\ req.classifierUp
    /\ resp.code = 500
    /\ Len(feedback) = 1

\* C5 as stated: when the publish fails after the insert or the status
\* assignment has been committed, the mutation stays and the request still gets
\* its success response.
C5_PublishFailureNotSurfaced ==
    [][/\ (/\ req'.op = "add_feedback"
           /\ ~req'.publishUp
           /\ Len(feedback') = Len(feedback) + 1)
          => resp'.code = 201
       /\ (/\ req'.op = "resolve_feedback"
           /\ ~req'.publishUp
           /\ req'.id \in DOMAIN feedback)
          => resp'.code = 200 /\ feedback'[req'.id].status = Resolved]_vars

\* C6: an event is published only by the request that has committed its
\* mutation: new_feedback by an ingestion that has inserted the row it names,
\* feedback_resolved by a resolve of a stored row that is now Resolved; and a
\* request that is rejected or fails before its commit publishes nothing.
C6_PublishAfterCommit ==
    [][req'.op \in WriteOps =>
        /\ \A k \in DOMAIN resp'.emitted :
             LET e == resp'.emitted[k]
             IN \/ /\ e.event = "new_feedback"
                   /\ req'.op = "add_feedback"
                   /\ e.id = Len(feedback) + 1
                   /\ Len(feedback') = Len(feedback) + 1
                \/ /\ e.event = "feedback_resolved"
                   /\ req'.op = "resolve_feedback"
                   /\ e.id = req'.id
                   /\ e.id \in DOMAIN feedback
                   /\ feedback'[e.id].status = Resolved
        /\ (\/ resp'.code \in {400, 404}
            \/ req'.op = "add_feedback" /\ feedback' = feedback)
           => resp'.emitted = <<>>]_vars

\* Both kinds of event have been published, and the last request, a resolve of
\* an id that is not stored, has published nothing.
C6_Witness ==
    /\ req.op = "resolve_feedback"
    /\ req.id \notin DOMAIN feedback
    /\ req.publishUp
    /\ resp.emitted = <<>>
    /\ Len(feedback) = 2
    /\ feedback[1].status = Resolved

\* C7: resolving an id that is not stored answers not-found, which is not the
\* validation error's status, and leaves both tables as they were.
C7_ResolveNotFound ==
    [][(req'.op = "resolve_feedback" /\ req'.id \notin DOMAIN feedback)
       => /\ resp'.code = 404
          /\ resp'.code # BadRequestCode
          /\ feedback' = feedback
          /\ stores' = stores]_vars

\* A resolve of the id after the last stored one has been answered.
C7_Witness ==
    /\ req.op = "resolve_feedback"
    /\ Len(feedback) = 1
    /\ req.id = 2
    /\ resp.code = 404

\* The calendar dates among the parameters sent, as days since 2024-01-01.
C8_Dates == {"2024-01-01", "2024-01-02", "9999-12-31"}

C8_Day(s) ==
    CASE s = "2024-01-01" -> 0
      [] s = "2024-01-02" -> 1
      [] s = "9999-12-31" -> 2913173

C8_Integers == {"1", "2"}

C8_Int(s) == CASE s = "1" -> 1 [] s = "2" -> 2

\* Every parameter is left out or valid: a date is a calendar date, a store_id
\* an integer.
C8_ValidArgs(args) ==
    /\ args.start = None \/ args.start[1] \in C8_Dates
    /\ args.end = None \/ args.end[1] \in C8_Dates
    /\ args.store_id = None \/ args.store_id[1] \in C8_Integers

\* The rows that satisfy every filter that is given.
C8_Matching(args) ==
    {f \in Range(feedback) :
        /\ args.start # None => f.timestamp >= C8_Day(args.start[1]) * TicksPerDay
        /\ args.end # None => f.timestamp < (C8_Day(args.end[1]) + 1) * TicksPerDay
        /\ args.store_id # None => f.store_id = Some(C8_Int(args.store_id[1]))
        /\ args.status # None => f.status = args.status
        /\ args.area # None =>
             \E s \in Range(stores) : f.store_id = Some(s.id) /\ s.area = args.area}

\* C8 as stated: for valid parameters the listing answers with exactly the
\* rows that satisfy all the filters given, each once.
C8_ListingExact ==
    (req.op = "get_feedback" /\ C8_ValidArgs(req.args))
    => /\ resp.code = 200
       /\ Range(resp.results) = C8_Matching(req.args)
       /\ Len(resp.results) = Cardinality(C8_Matching(req.args))

\* A parameter that is given (not left out, not empty) and is no calendar date.
C9_MalformedDate(param) == Truthy(param) /\ param[1] \notin C8_Dates

C9_NonInteger(param) == Truthy(param) /\ param[1] \notin C8_Integers

\* C9 as stated, an empty parameter counted as left out: on each read
\* endpoint a malformed start or end or a non-integer store_id is answered with
\* the validation error, whatever the other parameters.
C9_MalformedRejected ==
    (/\ req.op \in ReadOps
     /\ \/ C9_MalformedDate(req.args.start)
        \/ C9_MalformedDate(req.args.end)
        \/ C9_NonInteger(req.args.store_id))
    => resp.code = 400

RECURSIVE C10_Sum(_, _)
\* The scores of the first n rows of the table that are in V, added up.
C10_Sum(V, n) ==
    IF n = 0 THEN 0
    ELSE C10_Sum(V, n - 1)
         + (IF feedback[n] \in V THEN feedback[n].sentiment_score[1] ELSE 0)

\* C10: the metrics of a filtered view V: total is |V|; feedback_by_sentiment
\* has the three keys, each with the number of rows of V of that sentiment;
\* feedback_by_category has a key for just the categories that occur in V, with
\* the number of V's rows in the category and the mean of their scores.
C10_MetricsOfView ==
    (req.op = "get_metrics" /\ resp.code = 200)
    => LET V == Rows(build_filtered_query(req.args).query)
           In(c) == {f \in V : f.category = Some(c)}
       IN /\ resp.total_feedback = Cardinality(V)
          /\ DOMAIN resp.feedback_by_sentiment = {"Positive", "Negative", "Neutral"}
          /\ \A s \in DOMAIN resp.feedback_by_sentiment :
               resp.feedback_by_sentiment[s] =
                   Cardinality({f \in V : f.sentiment = Some(s)})
          /\ DOMAIN resp.feedback_by_category =
                 {c \in Range(candidate_labels) : In(c) # {}}
          /\ \A c \in DOMAIN resp.feedback_by_category :
               LET m == resp.feedback_by_category[c]
               IN /\ m.count = Cardinality(In(c))
                  /\ m.average_sentiment_score.n = m.count
                  /\ m.average_sentiment_score.sum = C10_Sum(In(c), Len(feedback))

\* The metrics of a filtered view of one row out of two have been answered,
\* with two sentiments at zero; and those of an empty view.
C10_Witness ==
    /\ req.op = "get_metrics"
    /\ resp.code = 200
    /\ Len(feedback) = 2
    /\ feedback[1].category = feedback[2].category
    /\ feedback[1].sentiment_score # feedback[2].sentiment_score
    /\ resp.total_feedback = 2
    /\ resp.feedback_by_sentiment["Negative"] = 0
    /\ req.args.status = Some("Resolved")

====
